---- MODULE Spec2Model ----
(***************************************************************************)
(* Model of the telecom reliability pipeline of 01_data_ingestion.py:      *)
(* the CDR and PCMD bronze tables, the stream-static join with the tower   *)
(* data and the expectations of the silver tables, the one-minute gold     *)
(* aggregates and the hour and day aggregates built from the minute table. *)
(*                                                                         *)
(* A table is a sequence of rows in the order the rows were first written. *)
(* One action is one update of the pipeline for one newly arrived record:  *)
(* the record is appended to its bronze table and every table downstream   *)
(* of it is brought up to date in dependency order.                        *)
(* A SQL NULL in a string column is the value NULL; an optional number is  *)
(* a sequence of length 0 (NULL) or 1.  Timestamps are seconds since the   *)
(* epoch, the origin F.window aligns its windows to.                       *)
(***************************************************************************)
EXTENDS Integers, Sequences, FiniteSets

VARIABLES static_tower_data,
          cdr_stream_bronze, cdr_stream_silver, cdr_expectations,
          cdr_stream_minute_gold, cdr_stream_hour_gold, cdr_stream_day_gold,
          pcmd_stream_bronze, pcmd_stream_silver, pcmd_expectations,
          pcmd_stream_minute_gold

cdr_vars == <<cdr_stream_bronze, cdr_stream_silver, cdr_expectations,
              cdr_stream_minute_gold, cdr_stream_hour_gold, cdr_stream_day_gold>>

pcmd_vars == <<pcmd_stream_bronze, pcmd_stream_silver, pcmd_expectations,
               pcmd_stream_minute_gold>>

vars == <<static_tower_data, cdr_vars, pcmd_vars>>

NULL == "null"

\* Number of records the sources deliver in one run of the model.
MaxEvents == 3

\* Window widths of F.window, in seconds.
Minute == 60

Hour == 3600

Day == 86400

----------------------------------------------------------------------------
(* Tower data                                                              *)

\* cell_towers.json.gz as first loaded: T1 and T2 exist, T9 does not.
TowerFile1 ==
  { [GlobalID |-> "T1", City |-> "X", County |-> "CX", State |-> "PA",
     Longitude |-> -75, Latitude |-> 40],
    [GlobalID |-> "T2", City |-> "Z", County |-> "CZ", State |-> "NJ",
     Longitude |-> -74, Latitude |-> 41] }

\* The same file after the towers were re-surveyed: T1 has moved.
TowerFile2 ==
  { [GlobalID |-> "T1", City |-> "Y", County |-> "CY", State |-> "PA",
     Longitude |-> -76, Latitude |-> 39],
    [GlobalID |-> "T2", City |-> "Z", County |-> "CZ", State |-> "NJ",
     Longitude |-> -74, Latitude |-> 41] }

TowerFiles == {TowerFile1, TowerFile2}

TowerIds(towers) == {t.GlobalID : t \in towers}

----------------------------------------------------------------------------
(* Silver layer: stream-static join, then the expectations                 *)

\* A left outer join: a record without a tower is kept, with no location.
JoinMatchesLeftOuter(e, towers) ==
  IF \E t \in towers : e.towerId # NULL /\ e.towerId = t.GlobalID
  THEN {t \in towers : e.towerId # NULL /\ e.towerId = t.GlobalID}
  ELSE { [GlobalID |-> NULL, City |-> NULL, County |-> NULL, State |-> NULL,
          Longitude |-> 0, Latitude |-> 0] }

\* df.join(df_towers, df.towerId == df_towers.GlobalID): an inner join.  The
\* condition is NULL, hence not true, for a NULL towerId.
JoinMatches(e, towers) ==
  {t \in towers : e.towerId # NULL /\ e.towerId = t.GlobalID}

CdrJoined(e, t) ==
  [towerId |-> e.towerId, type |-> e.type, status |-> e.status,
   event_ts |-> e.event_ts, GlobalID |-> t.GlobalID, City |-> t.City,
   County |-> t.County, State |-> t.State, Longitude |-> t.Longitude,
   Latitude |-> t.Latitude]

\* The rows the join of cdr_stream_silver yields for one bronze record (the
\* tower ids of the file are unique, so at most one).
CdrJoin(e, towers) ==
  IF JoinMatches(e, towers) = {} THEN << >>
  ELSE << CdrJoined(e, CHOOSE t \in JoinMatches(e, towers) : TRUE) >>

\* @dlt.expect_or_drop("towerId", "towerId IS NOT NULL")
CdrExpectTowerId(r) == r.towerId # NULL

\* @dlt.expect_or_drop("type", "type IS NOT NULL")
CdrExpectType(r) == r.type # NULL

CdrKeep(r) == CdrExpectTowerId(r) /\ CdrExpectType(r)

\* The rows cdr_stream_silver gains for one bronze record: the expectations
\* are evaluated on the rows the decorated query returns, i.e. after the join.
CdrSilverRows(e, towers) == SelectSeq(CdrJoin(e, towers), CdrKeep)

CountWhen(c) == IF c THEN 1 ELSE 0

\* The failed-record counts the expectations record for the rows they saw:
\* each expectation counts the rows that do not satisfy it.
CdrExpectationsAfter(m, rows) ==
  [towerId |-> m.towerId + (Len(rows) - Len(SelectSeq(rows, CdrExpectTowerId))),
   type    |-> m.type + (Len(rows) - Len(SelectSeq(rows, CdrExpectType)))]

----------------------------------------------------------------------------
(* Gold layer: one-minute aggregates of the CDR stream                     *)

\* window.start of F.window(ts, width)
WindowStart(ts, width) == ts - (ts % width)

\* The aggregation buffer of a group before its first row: the counts are 0
\* and F.first takes the values of the row that creates the group.
CdrMinuteZero(r) ==
  [date |-> WindowStart(r.event_ts, Minute), towerId |-> r.towerId,
   answered |-> 0, dropped |-> 0, missed |-> 0, call |-> 0, text |-> 0,
   totalRecords_CDR |-> 0,
   Latitude |-> r.Latitude, Longitude |-> r.Longitude, City |-> r.City,
   County |-> r.County, State |-> r.State]

\* The merge with "missed" counted as whatever is neither dropped nor answered.
CdrMinuteMergeMissedOtherwise(row, r) ==
  [row EXCEPT
     !.dropped  = @ + CountWhen(r.status = "dropped"),
     !.answered = @ + CountWhen(r.status = "answered"),
     !.missed   = @ + CountWhen(r.status \notin {"dropped", "answered"}),
     !.text     = @ + CountWhen(r.type = "text"),
     !.call     = @ + CountWhen(r.type = "call"),
     !.totalRecords_CDR = @ + 1]

\* The merge with F.last written for F.first: the location columns follow
\* the latest row of the group.
CdrMinuteMergeLastLocation(row, r) ==
  [row EXCEPT
     !.dropped  = @ + CountWhen(r.status = "dropped"),
     !.answered = @ + CountWhen(r.status = "answered"),
     !.missed   = @ + CountWhen(r.status = "missed"),
     !.text     = @ + CountWhen(r.type = "text"),
     !.call     = @ + CountWhen(r.type = "call"),
     !.totalRecords_CDR = @ + 1,
     !.Latitude = r.Latitude, !.Longitude = r.Longitude, !.City = r.City,
     !.County = r.County, !.State = r.State]

\* One row folded into the buffer of its group: F.count(F.when(c, True))
\* counts the rows for which c is true (not false, not NULL).
CdrMinuteMerge(row, r) ==
  [row EXCEPT
     !.dropped  = @ + CountWhen(r.status = "dropped"),
     !.answered = @ + CountWhen(r.status = "answered"),
     !.missed   = @ + CountWhen(r.status = "missed"),
     !.text     = @ + CountWhen(r.type = "text"),
     !.call     = @ + CountWhen(r.type = "call"),
     !.totalRecords_CDR = @ + 1]

\* groupBy(F.window("event_ts", "1 minute"), "towerId")
CdrMinuteGroup(row, r) ==
  row.date = WindowStart(r.event_ts, Minute) /\ row.towerId = r.towerId

\* The upsert with a watermark of one minute behind the latest event time
\* seen: a row older than the watermark is dropped.
CdrMinuteUpsertWatermark(table, r) ==
  IF \E i \in DOMAIN cdr_stream_silver :
       cdr_stream_silver[i].event_ts - Minute > r.event_ts
  THEN table
  ELSE IF \E i \in DOMAIN table : CdrMinuteGroup(table[i], r)
  THEN [i \in DOMAIN table |->
          IF CdrMinuteGroup(table[i], r) THEN CdrMinuteMerge(table[i], r)
          ELSE table[i]]
  ELSE Append(table, CdrMinuteMerge(CdrMinuteZero(r), r))

\* The upsert in append mode: every row starts a group of its own.
CdrMinuteUpsertAppend(table, r) ==
  Append(table, CdrMinuteMerge(CdrMinuteZero(r), r))

\* The upsert with a new group written at the head of the table.
CdrMinuteUpsertPrepend(table, r) ==
  IF \E i \in DOMAIN table : CdrMinuteGroup(table[i], r)
  THEN [i \in DOMAIN table |->
          IF CdrMinuteGroup(table[i], r) THEN CdrMinuteMerge(table[i], r)
          ELSE table[i]]
  ELSE <<CdrMinuteMerge(CdrMinuteZero(r), r)>> \o table

\* The minute table after one more silver row: the row joins the group of its
\* key if the table has it, whatever the age of the row (the query sets no
\* watermark), and starts a new group otherwise.
CdrMinuteUpsert(table, r) ==
  IF \E i \in DOMAIN table : CdrMinuteGroup(table[i], r)
  THEN [i \in DOMAIN table |->
          IF CdrMinuteGroup(table[i], r) THEN CdrMinuteMerge(table[i], r)
          ELSE table[i]]
  ELSE Append(table, CdrMinuteMerge(CdrMinuteZero(r), r))

RECURSIVE CdrMinuteGold(_, _)
CdrMinuteGold(table, rows) ==
  IF rows = << >> THEN table
  ELSE CdrMinuteGold(CdrMinuteUpsert(table, Head(rows)), Tail(rows))

----------------------------------------------------------------------------
(* Gold layer: hour and day aggregates of the minute table                 *)

RollupZero(m, width) ==
  [window |-> WindowStart(m.date, width), towerId |-> m.towerId,
   dropped |-> 0, answered |-> 0, missed |-> 0, text |-> 0, call |-> 0,
   totalRecords_CDR |-> 0,
   City |-> m.City, County |-> m.County, State |-> m.State,
   Latitude |-> m.Latitude, Longitude |-> m.Longitude,
   datetime |-> WindowStart(m.date, width)]

\* F.max written for F.sum.
RollupMergeMax(row, m) ==
  [row EXCEPT
     !.dropped  = IF m.dropped > @ THEN m.dropped ELSE @,
     !.answered = IF m.answered > @ THEN m.answered ELSE @,
     !.missed   = IF m.missed > @ THEN m.missed ELSE @,
     !.text     = IF m.text > @ THEN m.text ELSE @,
     !.call     = IF m.call > @ THEN m.call ELSE @,
     !.totalRecords_CDR =
        IF m.totalRecords_CDR > @ THEN m.totalRecords_CDR ELSE @]

\* F.sum of each counter column
RollupMerge(row, m) ==
  [row EXCEPT
     !.dropped  = @ + m.dropped,
     !.answered = @ + m.answered,
     !.missed   = @ + m.missed,
     !.text     = @ + m.text,
     !.call     = @ + m.call,
     !.totalRecords_CDR = @ + m.totalRecords_CDR]

RollupGroup(row, m, width) ==
  row.window = WindowStart(m.date, width) /\ row.towerId = m.towerId

RollupUpsert(table, m, width) ==
  IF \E i \in DOMAIN table : RollupGroup(table[i], m, width)
  THEN [i \in DOMAIN table |->
          IF RollupGroup(table[i], m, width) THEN RollupMerge(table[i], m)
          ELSE table[i]]
  ELSE Append(table, RollupMerge(RollupZero(m, width), m))

\* groupBy(F.window("date", width), "towerId").agg(...) over the rows of the
\* minute table, in table order.
RECURSIVE GroupByWindow(_, _, _)
GroupByWindow(table, rows, width) ==
  IF rows = << >> THEN table
  ELSE GroupByWindow(RollupUpsert(table, Head(rows), width), Tail(rows), width)

\* The hour table with windows of "5 hour".
CdrHourGoldFiveHours(minute) == GroupByWindow(<< >>, minute, 5 * Hour)

CdrHourGold(minute) == GroupByWindow(<< >>, minute, Hour)

CdrDayGold(minute) == GroupByWindow(<< >>, minute, Day)

----------------------------------------------------------------------------
(* Silver and gold layers of the PCMD stream                               *)

PcmdJoined(e, t) ==
  [towerId |-> e.towerId, ProcedureId |-> e.ProcedureId,
   ProcedureDuration |-> e.ProcedureDuration, event_ts |-> e.event_ts,
   GlobalID |-> t.GlobalID, City |-> t.City, County |-> t.County,
   State |-> t.State, Longitude |-> t.Longitude, Latitude |-> t.Latitude]

PcmdJoin(e, towers) ==
  IF JoinMatches(e, towers) = {} THEN << >>
  ELSE << PcmdJoined(e, CHOOSE t \in JoinMatches(e, towers) : TRUE) >>

\* @dlt.expect_or_drop("towerId", "towerId IS NOT NULL")
PcmdExpectTowerId(r) == r.towerId # NULL

\* @dlt.expect_or_drop("ProcedureId", "ProcedureId IS NOT NULL")
PcmdExpectProcedureId(r) == r.ProcedureId # NULL

\* @dlt.expect("ProcedureDuration", "ProcedureDuration > 0"): recorded, and
\* the row is kept.
PcmdExpectProcedureDuration(r) == r.ProcedureDuration > 0

\* The duration rule taken for a third expect_or_drop.
PcmdKeepPositive(r) ==
  /\ PcmdExpectTowerId(r) /\ PcmdExpectProcedureId(r)
  /\ PcmdExpectProcedureDuration(r)

\* Only the expect_or_drop expectations remove a row.
PcmdKeep(r) == PcmdExpectTowerId(r) /\ PcmdExpectProcedureId(r)

PcmdSilverRows(e, towers) == SelectSeq(PcmdJoin(e, towers), PcmdKeep)

PcmdExpectationsAfter(m, rows) ==
  [towerId |-> m.towerId + (Len(rows) - Len(SelectSeq(rows, PcmdExpectTowerId))),
   ProcedureId |-> m.ProcedureId + (Len(rows) - Len(SelectSeq(rows, PcmdExpectProcedureId))),
   ProcedureDuration |->
     m.ProcedureDuration + (Len(rows) - Len(SelectSeq(rows, PcmdExpectProcedureDuration)))]

\* F.avg(F.when(ProcedureId == pid, ProcedureDuration)): the buffer of avg is
\* the sum and the count of the non-NULL values; the average is sum / count
\* and is NULL while count = 0.
AvgWhen(buf, c, v) ==
  IF c THEN [sum |-> buf.sum + v, count |-> buf.count + 1] ELSE buf

\* F.max(F.when(...)): the largest non-NULL value, NULL if there is none.
MaxWhen(buf, c, v) ==
  IF c THEN (IF buf = << >> \/ v > buf[1] THEN <<v>> ELSE buf) ELSE buf

\* F.min(F.when(...))
MinWhen(buf, c, v) ==
  IF c THEN (IF buf = << >> \/ v < buf[1] THEN <<v>> ELSE buf) ELSE buf

NoAvg == [sum |-> 0, count |-> 0]

PcmdMinuteZero(r) ==
  [date |-> WindowStart(r.event_ts, Minute), towerId |-> r.towerId,
   avg_dur_request_to_release_bearer    |-> NoAvg,
   avg_dur_notification_data_sent_to_UE |-> NoAvg,
   avg_dur_request_to_setup_bearer      |-> NoAvg,
   max_dur_request_to_release_bearer    |-> << >>,
   max_dur_notification_data_sent_to_UE |-> << >>,
   max_dur_request_to_setup_bearer      |-> << >>,
   min_dur_request_to_release_bearer    |-> << >>,
   min_dur_notification_data_sent_to_UE |-> << >>,
   min_dur_request_to_setup_bearer      |-> << >>,
   totalRecords_PCMD |-> 0,
   Latitude |-> r.Latitude, Longitude |-> r.Longitude, City |-> r.City,
   County |-> r.County, State |-> r.State]

PcmdMinuteMerge(row, r) ==
  [row EXCEPT
     !.avg_dur_request_to_release_bearer =
        AvgWhen(@, r.ProcedureId = "11", r.ProcedureDuration),
     !.avg_dur_notification_data_sent_to_UE =
        AvgWhen(@, r.ProcedureId = "15", r.ProcedureDuration),
     !.avg_dur_request_to_setup_bearer =
        AvgWhen(@, r.ProcedureId = "16", r.ProcedureDuration),
     !.max_dur_request_to_release_bearer =
        MaxWhen(@, r.ProcedureId = "11", r.ProcedureDuration),
     !.max_dur_notification_data_sent_to_UE =
        MaxWhen(@, r.ProcedureId = "15", r.ProcedureDuration),
     !.max_dur_request_to_setup_bearer =
        MaxWhen(@, r.ProcedureId = "16", r.ProcedureDuration),
     !.min_dur_request_to_release_bearer =
        MinWhen(@, r.ProcedureId = "11", r.ProcedureDuration),
     !.min_dur_notification_data_sent_to_UE =
        MinWhen(@, r.ProcedureId = "15", r.ProcedureDuration),
     !.min_dur_request_to_setup_bearer =
        MinWhen(@, r.ProcedureId = "16", r.ProcedureDuration),
     !.totalRecords_PCMD = @ + 1]

PcmdMinuteGroup(row, r) ==
  row.date = WindowStart(r.event_ts, Minute) /\ row.towerId = r.towerId

PcmdMinuteUpsert(table, r) ==
  IF \E i \in DOMAIN table : PcmdMinuteGroup(table[i], r)
  THEN [i \in DOMAIN table |->
          IF PcmdMinuteGroup(table[i], r) THEN PcmdMinuteMerge(table[i], r)
          ELSE table[i]]
  ELSE Append(table, PcmdMinuteMerge(PcmdMinuteZero(r), r))

RECURSIVE PcmdMinuteGold(_, _)
PcmdMinuteGold(table, rows) ==
  IF rows = << >> THEN table
  ELSE PcmdMinuteGold(PcmdMinuteUpsert(table, Head(rows)), Tail(rows))

----------------------------------------------------------------------------
(* The pipeline                                                            *)

Init ==
  /\ static_tower_data = TowerFile1
  /\ cdr_stream_bronze = << >>
  /\ cdr_stream_silver = << >>
  /\ cdr_expectations = [towerId |-> 0, type |-> 0]
  /\ cdr_stream_minute_gold = << >>
  /\ cdr_stream_hour_gold = << >>
  /\ cdr_stream_day_gold = << >>
  /\ pcmd_stream_bronze = << >>
  /\ pcmd_stream_silver = << >>
  /\ pcmd_expectations = [towerId |-> 0, ProcedureId |-> 0, ProcedureDuration |-> 0]
  /\ pcmd_stream_minute_gold = << >>

Delivered == Len(cdr_stream_bronze) + Len(pcmd_stream_bronze)

\* One CDR record arrives and the pipeline is updated.
CdrIngest(e) ==
  /\ Delivered < MaxEvents
  /\ cdr_stream_bronze' = Append(cdr_stream_bronze, e)
  /\ cdr_stream_silver' =
       cdr_stream_silver \o CdrSilverRows(e, static_tower_data)
  /\ cdr_expectations' =
       CdrExpectationsAfter(cdr_expectations, CdrJoin(e, static_tower_data))
  /\ cdr_stream_minute_gold' =
       CdrMinuteGold(cdr_stream_minute_gold, CdrSilverRows(e, static_tower_data))
  /\ cdr_stream_hour_gold' = CdrHourGold(cdr_stream_minute_gold')
  /\ cdr_stream_day_gold' = CdrDayGold(cdr_stream_minute_gold')
  /\ UNCHANGED <<static_tower_data, pcmd_vars>>

\* One PCMD record arrives and the pipeline is updated.
PcmdIngest(e) ==
  /\ Delivered < MaxEvents
  /\ pcmd_stream_bronze' = Append(pcmd_stream_bronze, e)
  /\ pcmd_stream_silver' =
       pcmd_stream_silver \o PcmdSilverRows(e, static_tower_data)
  /\ pcmd_expectations' =
       PcmdExpectationsAfter(pcmd_expectations, PcmdJoin(e, static_tower_data))
  /\ pcmd_stream_minute_gold' =
       PcmdMinuteGold(pcmd_stream_minute_gold, PcmdSilverRows(e, static_tower_data))
  /\ UNCHANGED <<static_tower_data, cdr_vars>>

\* The tower file is replaced; the next update joins against the new one.
RefreshTowers ==
  /\ static_tower_data' \in TowerFiles \ {static_tower_data}
  /\ UNCHANGED <<cdr_vars, pcmd_vars>>

\* Records of the quality and join cases: known, unknown and NULL tower,
\* NULL type, NULL procedure, non-positive duration.
CdrEvents ==
  [towerId : {"T1", "T9", NULL}, type : {"call", NULL}, status : {"dropped"},
   event_ts : {10 * Hour + 15}]

PcmdEvents ==
  [towerId : {"T1", "T9", NULL}, ProcedureId : {"11", NULL},
   ProcedureDuration : {-5, 7}, event_ts : {10 * Hour + 15}]

Next ==
  \/ \E e \in CdrEvents : CdrIngest(e)
  \/ \E e \in PcmdEvents : PcmdIngest(e)
  \/ RefreshTowers

Spec == Init /\ [][Next]_vars

\* Records of one tower in two minutes, of every type and status.
CdrCounterEvents ==
  [towerId : {"T1"}, type : {"call", "text"},
   status : {"dropped", "answered", "missed", NULL},
   event_ts : {10 * Hour + 15, 10 * Hour + 45, 10 * Hour + Minute + 5}]

NextCdr == \E e \in CdrCounterEvents : CdrIngest(e)

SpecCdr == Init /\ [][NextCdr]_vars

\* Records of two towers, in and out of event-time order, over three minutes
\* of one hour, two hours of one day and two days.
CdrTimeEvents ==
  [towerId : {"T1", "T2"}, type : {"call"}, status : {"dropped", "answered"},
   event_ts : {10 * Hour + 45, 10 * Hour + Minute + 5,
               10 * Hour + 3 * Minute + 10,
               23 * Hour + 30 * Minute, Day + 30 * Minute}]

NextTime == \E e \in CdrTimeEvents : CdrIngest(e)

SpecTime == Init /\ [][NextTime]_vars

\* Procedure records of one tower: the three tracked procedures and one that
\* is not tracked, with negative, zero and positive durations.
PcmdDurationEvents ==
  [towerId : {"T1"}, ProcedureId : {"11", "15", "16", "20"},
   ProcedureDuration : {-5, 0, 7}, event_ts : {10 * Hour + 15, 10 * Hour + Minute + 5}]

NextPcmd == \E e \in PcmdDurationEvents : PcmdIngest(e)

SpecPcmd == Init /\ [][NextPcmd]_vars

\* Records of two towers in two minutes of one hour and in a second hour,
\* arriving in any order of event time, between replacements of the tower
\* file.
CdrLocationEvents ==
  [towerId : {"T1", "T2"}, type : {"call"}, status : {"dropped"},
   event_ts : {10 * Hour + 15, 10 * Hour + 45, 10 * Hour + Minute + 5,
               23 * Hour + 30 * Minute}]

NextLocation ==
  \/ \E e \in CdrLocationEvents : CdrIngest(e)
  \/ RefreshTowers

SpecLocation == Init /\ [][NextLocation]_vars

----------------------------------------------------------------------------
(* Vocabulary of the properties                                            *)

Range(s) == {s[i] : i \in DOMAIN s}

RECURSIVE SumOver(_, _)
\* The sum of f[x] over the x of a finite set.
SumOver(S, f) ==
  IF S = {} THEN 0
  ELSE LET x == CHOOSE y \in S : TRUE IN f[x] + SumOver(S \ {x}, f)

\* The silver CDR rows (by position) of one minute of one tower.
CdrEventsOf(tower, start) ==
  {i \in DOMAIN cdr_stream_silver :
     /\ cdr_stream_silver[i].towerId = tower
     /\ WindowStart(cdr_stream_silver[i].event_ts, Minute) = start}

\* The rows (by position) of the minute table with one key.
CdrMinuteRowsOf(tower, start) ==
  {j \in DOMAIN cdr_stream_minute_gold :
     /\ cdr_stream_minute_gold[j].towerId = tower
     /\ cdr_stream_minute_gold[j].date = start}

CdrCounters == {"dropped", "answered", "missed", "text", "call", "totalRecords_CDR"}

\* The tower ids of the tower file (the same in every version of it).
KnownTowers == TowerIds(static_tower_data)

----------------------------------------------------------------------------
(* C1                                                                      *)

\* C1: the minute aggregate of a key (towerId, minute of event_ts) exists as
\* soon as a retained, tower-matched record of the key exists, and each of
\* its counters is the number of those records that satisfy the counter's
\* predicate: dropped, answered and missed count the records of that status,
\* text and call those of that type, totalRecords_CDR all of them; a record
\* of NULL status counts for its type and the total only.
C1_MinuteCounters ==
  /\ \A i \in DOMAIN cdr_stream_silver :
       CdrMinuteRowsOf(cdr_stream_silver[i].towerId,
                       WindowStart(cdr_stream_silver[i].event_ts, Minute)) # {}
  /\ \A j \in DOMAIN cdr_stream_minute_gold :
       LET row == cdr_stream_minute_gold[j]
           ev == CdrEventsOf(row.towerId, row.date)
           S(i) == cdr_stream_silver[i]
       IN /\ row.dropped  = Cardinality({i \in ev : S(i).status = "dropped"})
          /\ row.answered = Cardinality({i \in ev : S(i).status = "answered"})
          /\ row.missed   = Cardinality({i \in ev : S(i).status = "missed"})
          /\ row.text     = Cardinality({i \in ev : S(i).type = "text"})
          /\ row.call     = Cardinality({i \in ev : S(i).type = "call"})
          /\ row.totalRecords_CDR = Cardinality(ev)
          /\ row.totalRecords_CDR =
               row.dropped + row.answered + row.missed
                 + Cardinality({i \in ev : S(i).status = NULL})

\* Scenario A with a third record of NULL status: T1 at 10:00:15 dropped, at
\* 10:00:45 answered and one more of the same minute without a status give
\* the bucket 10:00:00 dropped 1, answered 1, missed 0 and a total of 3.
C1_Witness ==
  /\ Len(cdr_stream_silver) = 3
  /\ cdr_stream_silver[1].event_ts = 10 * Hour + 15
  /\ cdr_stream_silver[1].status = "dropped"
  /\ cdr_stream_silver[2].event_ts = 10 * Hour + 45
  /\ cdr_stream_silver[2].status = "answered"
  /\ cdr_stream_silver[3].event_ts = 10 * Hour + 45
  /\ cdr_stream_silver[3].status = NULL
  /\ Len(cdr_stream_minute_gold) = 1
  /\ cdr_stream_minute_gold[1].towerId = "T1"
  /\ cdr_stream_minute_gold[1].date = 10 * Hour
  /\ cdr_stream_minute_gold[1].dropped = 1
  /\ cdr_stream_minute_gold[1].answered = 1
  /\ cdr_stream_minute_gold[1].missed = 0
  /\ cdr_stream_minute_gold[1].totalRecords_CDR = 3
  /\ cdr_stream_minute_gold[1].City = "X"

----------------------------------------------------------------------------
(* C2                                                                      *)

\* The bronze records (by position) whose tower is not in the tower file.
CdrJoinMisses ==
  {i \in DOMAIN cdr_stream_bronze :
     /\ cdr_stream_bronze[i].towerId # NULL
     /\ cdr_stream_bronze[i].towerId \notin KnownTowers}

PcmdJoinMisses ==
  {i \in DOMAIN pcmd_stream_bronze :
     /\ pcmd_stream_bronze[i].towerId # NULL
     /\ pcmd_stream_bronze[i].towerId \notin KnownTowers}

\* The records the expectations of a silver table have counted as failed.
CdrRejected == cdr_expectations.towerId + cdr_expectations.type

PcmdRejected == pcmd_expectations.towerId + pcmd_expectations.ProcedureId

CdrTotal(table) ==
  SumOver(DOMAIN table, [j \in DOMAIN table |-> table[j].totalRecords_CDR])

PcmdTotal(table) ==
  SumOver(DOMAIN table, [j \in DOMAIN table |-> table[j].totalRecords_PCMD])

----------------------------------------------------------------------------
(* C3                                                                      *)

\* The bronze records (by position) that break a drop rule.
CdrDropRuleViolations ==
  {i \in DOMAIN cdr_stream_bronze :
     cdr_stream_bronze[i].towerId = NULL \/ cdr_stream_bronze[i].type = NULL}

PcmdDropRuleViolations ==
  {i \in DOMAIN pcmd_stream_bronze :
     pcmd_stream_bronze[i].towerId = NULL \/ pcmd_stream_bronze[i].ProcedureId = NULL}

\* C3: a CDR record of NULL towerId or NULL type, and a PCMD record of NULL
\* towerId or NULL ProcedureId, is dropped: it is in no silver table and in
\* no aggregate, and it is counted in the rejection metric of its table.
C3_DroppedCounted ==
  /\ \A r \in Range(cdr_stream_silver) : r.towerId # NULL /\ r.type # NULL
  /\ \A r \in Range(pcmd_stream_silver) : r.towerId # NULL /\ r.ProcedureId # NULL
  /\ Len(cdr_stream_silver) <=
       Len(cdr_stream_bronze) - Cardinality(CdrDropRuleViolations)
  /\ Len(pcmd_stream_silver) <=
       Len(pcmd_stream_bronze) - Cardinality(PcmdDropRuleViolations)
  /\ CdrTotal(cdr_stream_minute_gold) = Len(cdr_stream_silver)
  /\ PcmdTotal(pcmd_stream_minute_gold) = Len(pcmd_stream_silver)
  /\ CdrRejected >= Cardinality(CdrDropRuleViolations)
  /\ PcmdRejected >= Cardinality(PcmdDropRuleViolations)

----------------------------------------------------------------------------
(* C4                                                                      *)

\* The silver PCMD rows (by position) of one minute of one tower.
PcmdEventsOf(tower, start) ==
  {i \in DOMAIN pcmd_stream_silver :
     /\ pcmd_stream_silver[i].towerId = tower
     /\ WindowStart(pcmd_stream_silver[i].event_ts, Minute) = start}

TrackedProcedures == {"11", "15", "16"}

\* The avg, max and min columns of a row for a tracked procedure.
PcmdStat(row, pid) ==
  IF pid = "11"
  THEN [avg |-> row.avg_dur_request_to_release_bearer,
        max |-> row.max_dur_request_to_release_bearer,
        min |-> row.min_dur_request_to_release_bearer]
  ELSE IF pid = "15"
  THEN [avg |-> row.avg_dur_notification_data_sent_to_UE,
        max |-> row.max_dur_notification_data_sent_to_UE,
        min |-> row.min_dur_notification_data_sent_to_UE]
  ELSE [avg |-> row.avg_dur_request_to_setup_bearer,
        max |-> row.max_dur_request_to_setup_bearer,
        min |-> row.min_dur_request_to_setup_bearer]

----------------------------------------------------------------------------
(* C5                                                                      *)

\* The rows (by position) of the minute table that fall into the window of
\* width w that starts at start, for one tower.
CdrChildren(tower, start, w) ==
  {j \in DOMAIN cdr_stream_minute_gold :
     /\ cdr_stream_minute_gold[j].towerId = tower
     /\ WindowStart(cdr_stream_minute_gold[j].date, w) = start}

\* Each counter of each row of a rollup table is the sum of the counter over
\* the minute rows of the row's tower and window, and every minute row is in
\* exactly one row of the table.
RollupIsSum(table, w) ==
  /\ \A k \in DOMAIN table :
       LET ch == CdrChildren(table[k].towerId, table[k].window, w)
       IN /\ ch # {}
          /\ table[k].datetime = table[k].window
          /\ \A c \in CdrCounters :
               table[k][c] =
                 SumOver(ch, [j \in DOMAIN cdr_stream_minute_gold |->
                                cdr_stream_minute_gold[j][c]])
  /\ \A j \in DOMAIN cdr_stream_minute_gold :
       Cardinality({k \in DOMAIN table :
                      /\ table[k].towerId = cdr_stream_minute_gold[j].towerId
                      /\ table[k].window =
                           WindowStart(cdr_stream_minute_gold[j].date, w)}) = 1

\* The sum of totalRecords_CDR over the rows of one tower.
CdrTowerTotal(table, tower) ==
  SumOver({k \in DOMAIN table : table[k].towerId = tower},
          [k \in DOMAIN table |-> table[k].totalRecords_CDR])

\* C5: every counter of an hour (day) aggregate is the sum of that counter
\* over exactly the minute buckets of the same tower whose start floors to
\* that hour (day); every minute bucket is in exactly one hour and exactly
\* one day bucket, and the total of a tower is the same at minute, hour and
\* day granularity.
C5_RollupSums ==
  /\ RollupIsSum(cdr_stream_hour_gold, Hour)
  /\ RollupIsSum(cdr_stream_day_gold, Day)
  /\ \A tower \in KnownTowers :
       /\ CdrTowerTotal(cdr_stream_hour_gold, tower) =
            CdrTowerTotal(cdr_stream_minute_gold, tower)
       /\ CdrTowerTotal(cdr_stream_day_gold, tower) =
            CdrTowerTotal(cdr_stream_minute_gold, tower)

\* Scenario B in small: three minute buckets of T1 with a total of 1 each
\* are rolled up into one hour bucket with a total of 3.
C5_Witness ==
  /\ Len(cdr_stream_minute_gold) = 3
  /\ \A j \in DOMAIN cdr_stream_minute_gold :
       /\ cdr_stream_minute_gold[j].towerId = "T1"
       /\ cdr_stream_minute_gold[j].totalRecords_CDR = 1
  /\ Len(cdr_stream_hour_gold) = 1
  /\ cdr_stream_hour_gold[1].totalRecords_CDR = 3
  /\ cdr_stream_hour_gold[1].window = 10 * Hour

----------------------------------------------------------------------------
(* C6                                                                      *)

\* The lateness the properties allow a record: one window.
AllowedLateness == Minute

\* The silver row at position i is older than the watermark, the latest event
\* time of the rows before it, by more than the allowed lateness.
CdrLate(i) ==
  \E j \in 1 .. (i - 1) :
     cdr_stream_silver[i].event_ts < cdr_stream_silver[j].event_ts - AllowedLateness

----------------------------------------------------------------------------
(* C7                                                                      *)

----------------------------------------------------------------------------
(* C9                                                                      *)

\* The hour table read as the input of a rollup: its rows are dated by the
\* start of their hour.
HourRowsAsInput ==
  [k \in DOMAIN cdr_stream_hour_gold |->
     [date |-> cdr_stream_hour_gold[k].datetime,
      towerId |-> cdr_stream_hour_gold[k].towerId,
      dropped |-> cdr_stream_hour_gold[k].dropped,
      answered |-> cdr_stream_hour_gold[k].answered,
      missed |-> cdr_stream_hour_gold[k].missed,
      text |-> cdr_stream_hour_gold[k].text,
      call |-> cdr_stream_hour_gold[k].call,
      totalRecords_CDR |-> cdr_stream_hour_gold[k].totalRecords_CDR,
      City |-> cdr_stream_hour_gold[k].City,
      County |-> cdr_stream_hour_gold[k].County,
      State |-> cdr_stream_hour_gold[k].State,
      Latitude |-> cdr_stream_hour_gold[k].Latitude,
      Longitude |-> cdr_stream_hour_gold[k].Longitude]]

\* The day aggregates of the chain minute -> hour -> day.
DayViaHours == GroupByWindow(<< >>, HourRowsAsInput, Day)

\* The key and the counters of the rows of a rollup table.
KeyedCounters(table) ==
  {[c \in CdrCounters \cup {"towerId", "window"} |-> table[k][c]] :
     k \in DOMAIN table}

----------------------------------------------------------------------------
(* C10                                                                     *)

\* The position in the silver table of the first record of a minute row.
FirstArrival(row) ==
  CHOOSE i \in CdrEventsOf(row.towerId, row.date) :
     \A k \in CdrEventsOf(row.towerId, row.date) : i <= k

\* The silver rows of a tower are in non-decreasing order of event time.
ArrivedInOrder(tower) ==
  \A i, j \in DOMAIN cdr_stream_silver :
     ( /\ i < j
       /\ cdr_stream_silver[i].towerId = tower
       /\ cdr_stream_silver[j].towerId = tower )
     => cdr_stream_silver[i].event_ts <= cdr_stream_silver[j].event_ts

\* The minute rows of a tower are in non-decreasing order of window start.
EmittedInOrder(tower) ==
  \A i, j \in DOMAIN cdr_stream_minute_gold :
     ( /\ i < j
       /\ cdr_stream_minute_gold[i].towerId = tower
       /\ cdr_stream_minute_gold[j].towerId = tower )
     => cdr_stream_minute_gold[i].date <= cdr_stream_minute_gold[j].date

----------------------------------------------------------------------------
(* C11                                                                     *)

LocationFields == {"City", "County", "State", "Latitude", "Longitude"}

\* The location columns of a row.
Location(row) == [f \in LocationFields |-> row[f]]

\* The first row (by position) of the minute table in the window of width w
\* of a rollup row.
FirstChild(row, w) ==
  CHOOSE j \in CdrChildren(row.towerId, row.window, w) :
     \A k \in CdrChildren(row.towerId, row.window, w) : j <= k

\* The location of every minute row is that of the first record of its key
\* to arrive, and the location of every hour and day row is that of the
\* first minute row of its window to be written.
LocationIsFirst ==
  /\ \A j \in DOMAIN cdr_stream_minute_gold :
       Location(cdr_stream_minute_gold[j]) =
         Location(cdr_stream_silver[FirstArrival(cdr_stream_minute_gold[j])])
  /\ \A k \in DOMAIN cdr_stream_hour_gold :
       Location(cdr_stream_hour_gold[k]) =
         Location(cdr_stream_minute_gold[FirstChild(cdr_stream_hour_gold[k], Hour)])
  /\ \A k \in DOMAIN cdr_stream_day_gold :
       Location(cdr_stream_day_gold[k]) =
         Location(cdr_stream_minute_gold[FirstChild(cdr_stream_day_gold[k], Day)])

\* C11: the location fields (City, County, State, Latitude, Longitude) of a
\* minute aggregate are those of the first record merged into the bucket by
\* arrival order, whatever its event time, and no step changes them: not the
\* merge of a later record, even one that carries another location after the
\* tower file was replaced, and not the replacement itself; an hour or day
\* aggregate has the location fields of the first minute bucket of its
\* window in the order the buckets were written, and no step changes them.
C11_LocationFirstWins ==
  /\ []LocationIsFirst
  /\ [][ /\ \A j \in DOMAIN cdr_stream_minute_gold :
              /\ j \in DOMAIN cdr_stream_minute_gold'
              /\ Location(cdr_stream_minute_gold'[j]) =
                   Location(cdr_stream_minute_gold[j])
         /\ \A k \in DOMAIN cdr_stream_hour_gold :
              /\ k \in DOMAIN cdr_stream_hour_gold'
              /\ cdr_stream_hour_gold'[k].window = cdr_stream_hour_gold[k].window
              /\ cdr_stream_hour_gold'[k].towerId = cdr_stream_hour_gold[k].towerId
              /\ Location(cdr_stream_hour_gold'[k]) =
                   Location(cdr_stream_hour_gold[k])
         /\ \A k \in DOMAIN cdr_stream_day_gold :
              /\ k \in DOMAIN cdr_stream_day_gold'
              /\ cdr_stream_day_gold'[k].window = cdr_stream_day_gold[k].window
              /\ cdr_stream_day_gold'[k].towerId = cdr_stream_day_gold[k].towerId
              /\ Location(cdr_stream_day_gold'[k]) =
                   Location(cdr_stream_day_gold[k])
       ]_vars

\* T1 at 10:00:45 arrived first, with city X; the tower file was replaced;
\* T1 at 10:00:15, earlier in event time and with city Y, was merged into
\* the same bucket, and T1 at 10:01:05 started a second bucket with city Y:
\* the bucket 10:00 and the hour and day aggregates still have city X.
C11_Witness ==
  /\ Len(cdr_stream_silver) = 3
  /\ cdr_stream_silver[1].event_ts = 10 * Hour + 45
  /\ cdr_stream_silver[1].City = "X"
  /\ cdr_stream_silver[2].event_ts = 10 * Hour + 15
  /\ cdr_stream_silver[2].towerId = cdr_stream_silver[1].towerId
  /\ cdr_stream_silver[2].City = "Y"
  /\ Len(cdr_stream_minute_gold) = 2
  /\ cdr_stream_minute_gold[1].totalRecords_CDR = 2
  /\ cdr_stream_minute_gold[1].City = "X"
  /\ cdr_stream_minute_gold[1].Latitude = 40
  /\ cdr_stream_minute_gold[2].towerId = cdr_stream_minute_gold[1].towerId
  /\ cdr_stream_minute_gold[2].City = "Y"
  /\ Len(cdr_stream_hour_gold) = 1
  /\ cdr_stream_hour_gold[1].totalRecords_CDR = 3
  /\ cdr_stream_hour_gold[1].City = "X"
  /\ Len(cdr_stream_day_gold) = 1
  /\ cdr_stream_day_gold[1].City = "X"

====
